---- MODULE Spec2Model ----
(***************************************************************************)
(* Model of src/max2025_menugenerator.py (class MenuGenerator).            *)
(*                                                                         *)
(* A Python str is a sequence of one-character strings.  A filesystem path *)
(* is held as its split on the path separator: "R/Sub" is <<R, Sub>>, a    *)
(* trailing separator leaves a trailing empty segment.                     *)
(***************************************************************************)
EXTENDS Integers, Sequences, FiniteSets, TLC

VARIABLES
    input,      \* SpecReader: the descriptor file handed to read_macro_file
    result,     \* SpecReader: what read_macro_file did with it
    fs,         \* the filesystem: resolved path |-> [kind, lines]
    built,      \* SpecTree: the _build_tree calls made since fs last changed
    fsChanges,  \* changes of the disk since the generator was constructed
    constructed,                \* __init__ has run
    root_directory_path,        \* self.root_directory_path
    quad_menu_modifier_keys,    \* self.quad_menu_modifier_keys
    quad_menu_position,         \* self.quad_menu_position
    print_tree,                 \* self.print_tree
    directory_tree,             \* self.directory_tree
    registry,   \* the host's callback scripts, in the order they were added
    last,       \* the generator's last operation, if the disk has not changed
                \* since: its host calls, output and filesystem calls
    prints,     \* tree dumps written so far
    flag0,      \* print_tree as handed to __init__
    mainBuilt   \* define_main_menu has run

readerVars == <<input, result>>
treeVars == <<fs, built>>
fieldVars == <<root_directory_path, quad_menu_modifier_keys, quad_menu_position,
               print_tree, directory_tree>>
genVars == <<constructed, fieldVars, registry, last, prints, flag0, mainBuilt>>
vars == <<readerVars, treeVars, fsChanges, genVars>>

(***************************************************************************)
(* str helpers                                                             *)
(***************************************************************************)
EmptyStr == <<>>

\* str.split() / str.strip() white space
IsSpace(c) ==
    c \in {" ", "\t"}

RECURSIVE LStrip(_)
LStrip(s) ==
    IF s = <<>> \/ ~IsSpace(Head(s)) THEN s ELSE LStrip(Tail(s))

RECURSIVE RStrip(_)
RStrip(s) ==
    IF s = <<>> \/ ~IsSpace(s[Len(s)]) THEN s ELSE RStrip(SubSeq(s, 1, Len(s) - 1))

\* str.strip()
Strip(s) ==
    RStrip(LStrip(s))

\* str.startswith(p)
StartsWith(s, p) ==
    Len(s) >= Len(p) /\ SubSeq(s, 1, Len(p)) = p

\* str.endswith(p)
EndsWith(s, p) ==
    Len(s) >= Len(p) /\ SubSeq(s, Len(s) - Len(p) + 1, Len(s)) = p

\* sub in s
Contains(s, sub) ==
    \E i \in 1..(Len(s) - Len(sub) + 1) : SubSeq(s, i, i + Len(sub) - 1) = sub

RECURSIVE SplitWSAcc(_, _, _)
SplitWSAcc(s, cur, acc) ==
    IF s = <<>>
    THEN IF cur = <<>> THEN acc ELSE Append(acc, cur)
    ELSE IF IsSpace(Head(s))
         THEN SplitWSAcc(Tail(s), <<>>, IF cur = <<>> THEN acc ELSE Append(acc, cur))
         ELSE SplitWSAcc(Tail(s), Append(cur, Head(s)), acc)

\* str.split(): the maximal runs of non-white-space characters
SplitWS(s) ==
    SplitWSAcc(s, <<>>, <<>>)

RECURSIVE SplitOnAcc(_, _, _, _)
SplitOnAcc(s, ch, cur, acc) ==
    IF s = <<>>
    THEN Append(acc, cur)
    ELSE IF Head(s) = ch
         THEN SplitOnAcc(Tail(s), ch, <<>>, Append(acc, cur))
         ELSE SplitOnAcc(Tail(s), ch, Append(cur, Head(s)), acc)

\* str.split(ch): the pieces between occurrences of ch, empty pieces kept
SplitOn(s, ch) ==
    SplitOnAcc(s, ch, <<>>, <<>>)

(***************************************************************************)
(* Descriptor Reader: read_macro_file                                      *)
(***************************************************************************)
macro_start_identifier ==
    <<"m", "a", "c", "r", "o", "S", "c", "r", "i", "p", "t">>

category_identifier ==
    <<"c", "a", "t", "e", "g", "o", "r", "y", ":">>

CommentMarker ==
    <<"-", "-">>

Quote == "\""

\* line 84: the stripped lines of the file that are not comments
RECURSIVE StrippedLines(_)
StrippedLines(raw) ==
    IF raw = <<>> THEN <<>>
    ELSE IF StartsWith(Strip(Head(raw)), CommentMarker)
         THEN StrippedLines(Tail(raw))
         ELSE <<Strip(Head(raw))>> \o StrippedLines(Tail(raw))

\* line 86, with the guard dropped: every line with the marker sets the name
TakesName_overwrite(line, macro_name) ==
    Contains(line, macro_start_identifier)

\* line 86: the line sets the name
TakesName(line, macro_name) ==
    Contains(line, macro_start_identifier) /\ macro_name = EmptyStr

\* line 88: the line is looked at for the category
TakesCategory(line, macro_category) ==
    Contains(line, category_identifier) /\ macro_category = EmptyStr

\* lines 89-91: the category after the line
CategoryAfter(line, macro_category) ==
    IF TakesCategory(line, macro_category)
    THEN LET parts == SplitOn(line, Quote)
         IN  IF Len(parts) >= 2 THEN parts[2] ELSE macro_category
    ELSE macro_category

Returned(n, c) ==
    [status |-> "returned", name |-> n, category |-> c]

\* line.split()[1] on a line with fewer than two tokens: IndexError
Raised ==
    [status |-> "raised", name |-> EmptyStr, category |-> EmptyStr]

Pending ==
    [status |-> "pending", name |-> EmptyStr, category |-> EmptyStr]

\* lines 85-94: the scan, from line i on, with the fields found so far
RECURSIVE ScanLines(_, _, _, _)
ScanLines(lines, i, macro_name, macro_category) ==
    IF i > Len(lines)
    THEN Returned(macro_name, macro_category)
    ELSE LET line == lines[i]
         IN  IF TakesName(line, macro_name) /\ Len(SplitWS(line)) < 2
             THEN Raised
             ELSE LET name1 == IF TakesName(line, macro_name)
                               THEN SplitWS(line)[2] ELSE macro_name
                      cat1  == CategoryAfter(line, macro_category)
                  IN  IF name1 # EmptyStr /\ cat1 # EmptyStr
                      THEN Returned(name1, cat1)
                      ELSE ScanLines(lines, i + 1, name1, cat1)

\* lines 80-94.  file is [isfile |-> BOOLEAN, lines |-> the raw lines]
read_macro_file(file) ==
    IF ~file.isfile
    THEN Returned(EmptyStr, EmptyStr)
    ELSE ScanLines(StrippedLines(file.lines), 1, EmptyStr, EmptyStr)

(***************************************************************************)
(* Descriptor files the reader is run on                                   *)
(***************************************************************************)
MaxLines == 3

SP == <<" ">>
Foo == <<"F", "o", "o">>
Goo == <<"G">>
Bar == <<"B", "a", "r">>
Baz == <<"Z">>
Quoted(s) == <<Quote>> \o s \o <<Quote>>

LinePool ==
    { macro_start_identifier \o SP \o Foo,                        \* macroScript Foo
      <<"\t">> \o macro_start_identifier \o SP \o SP \o Goo \o SP,\* <tab>macroScript  G<sp>
      macro_start_identifier,                                     \* macroScript
      category_identifier \o SP \o Quoted(Bar),                   \* category: "Bar"
      category_identifier \o Quoted(Baz) \o SP \o Quoted(Bar),    \* category:"Z" "Bar"
      category_identifier \o SP \o Bar,                           \* category: Bar
      category_identifier \o SP \o Quoted(EmptyStr),              \* category: ""
      category_identifier \o SP \o <<Quote>> \o Baz,              \* category: "Z
      CommentMarker \o SP \o macro_start_identifier \o SP \o Goo, \* -- macroScript G
      SP \o CommentMarker \o category_identifier \o Quoted(Baz),  \* <sp>--category:"Z"
      <<"-">> \o SP \o Quoted(Baz),                               \* - "Z"
      EmptyStr,
      macro_start_identifier \o SP \o Foo \o SP
          \o category_identifier \o Quoted(Bar),                  \* macroScript Foo category:"Bar"
      Quoted(Baz) \o SP \o category_identifier
          \o macro_start_identifier }                             \* "Z" category:macroScript

RECURSIVE SeqsUpTo(_, _)
SeqsUpTo(S, n) ==
    IF n = 0 THEN {<<>>}
    ELSE LET shorter == SeqsUpTo(S, n - 1)
         IN  shorter \cup {Append(s, x) : s \in shorter, x \in S}

ReaderInputs ==
    {[isfile |-> FALSE, lines |-> <<>>]}
        \cup {[isfile |-> TRUE, lines |-> ls] : ls \in SeqsUpTo(LinePool, MaxLines)}

NoNode ==
    [name |-> EmptyStr, path |-> <<EmptyStr>>, type |-> "file", children |-> <<>>]

NoOp ==
    [op |-> "none", raised |-> FALSE, calls |-> <<>>, stdout |-> <<>>,
     warnings |-> <<>>, isdir |-> 0, listdir |-> 0, isfile |-> 0,
     inst |-> 0, main |-> "", quad |-> ""]

\* no generator has been constructed
Unconstructed ==
    /\ constructed = FALSE
    /\ root_directory_path = <<EmptyStr>>
    /\ quad_menu_modifier_keys = "CTRL+SHIFT"
    /\ quad_menu_position = "TOP_RIGHT"
    /\ print_tree = FALSE
    /\ directory_tree = NoNode
    /\ registry = <<>>
    /\ last = NoOp
    /\ prints = 0
    /\ flag0 = FALSE
    /\ mainBuilt = FALSE
    /\ fsChanges = 0

InitReader ==
    /\ input \in ReaderInputs
    /\ result = Pending
    /\ fs = <<>>
    /\ built = <<>>
    /\ Unconstructed

\* one call read_macro_file(input_path) with the default markers
ReadMacroFile ==
    /\ result.status = "pending"
    /\ result' = read_macro_file(input)
    /\ UNCHANGED <<input, treeVars, fsChanges, genVars>>

NextReader ==
    ReadMacroFile

SpecReader ==
    InitReader /\ [][NextReader]_vars

(***************************************************************************)
(* os.path and the filesystem                                              *)
(***************************************************************************)
Last(s) == s[Len(s)]
Front(s) == SubSeq(s, 1, Len(s) - 1)

Dot == <<".">>
DotDot == <<".", ".">>

\* os.path.join(path, item)
Join(path, item) ==
    IF Last(path) = EmptyStr THEN Front(path) \o <<item>> ELSE path \o <<item>>

\* path.rstrip("\\/"): trailing separators leave trailing empty segments
RECURSIVE RStripSep(_)
RStripSep(path) ==
    IF Len(path) > 1 /\ Last(path) = EmptyStr THEN RStripSep(Front(path)) ELSE path

\* os.path.basename(path): what follows the last separator
Basename(path) ==
    Last(path)

RECURSIVE NormComps(_, _, _)
NormComps(comps, absolute, acc) ==
    IF comps = <<>> THEN acc
    ELSE LET c == Head(comps)
         IN  IF c = EmptyStr \/ c = Dot
             THEN NormComps(Tail(comps), absolute, acc)
             ELSE IF c = DotDot
                  THEN IF acc # <<>> /\ Last(acc) # DotDot
                       THEN NormComps(Tail(comps), absolute, Front(acc))
                       ELSE IF absolute
                            THEN NormComps(Tail(comps), absolute, acc)
                            ELSE NormComps(Tail(comps), absolute, Append(acc, c))
                  ELSE NormComps(Tail(comps), absolute, Append(acc, c))

\* os.path.normpath(path): no empty or "." segment, ".." resolved, "." if empty
NormPath(path) ==
    LET absolute == Len(path) > 1 /\ Head(path) = EmptyStr
        comps    == NormComps(path, absolute, <<>>)
    IN  IF absolute THEN <<EmptyStr>> \o (IF comps = <<>> THEN <<EmptyStr>> ELSE comps)
        ELSE IF comps = <<>> THEN <<Dot>> ELSE comps

\* os.path.isdir(path)
IsDir(f, path) ==
    NormPath(path) \in DOMAIN f /\ f[NormPath(path)].kind = "dir"

\* os.path.isfile(path)
IsFile(f, path) ==
    NormPath(path) \in DOMAIN f /\ f[NormPath(path)].kind = "file"

\* os.listdir(path): the entries, in the order the OS hands them out (listing
\* enumerates every entry name; the directory's entries come in that order)
ListDir(f, path, listing) ==
    SelectSeq(listing, LAMBDA n : Append(NormPath(path), n) \in DOMAIN f)

\* ord(c) of the characters of entry names
Ord(c) ==
    CASE c = "." -> 46
      [] c = "B" -> 66 [] c = "C" -> 67 [] c = "M" -> 77 [] c = "R" -> 82
      [] c = "S" -> 83 [] c = "a" -> 97 [] c = "b" -> 98 [] c = "c" -> 99
      [] c = "m" -> 109 [] c = "r" -> 114 [] c = "u" -> 117

\* str < str
RECURSIVE StrLess(_, _)
StrLess(a, b) ==
    IF b = <<>> THEN FALSE
    ELSE IF a = <<>> THEN TRUE
    ELSE IF Ord(Head(a)) # Ord(Head(b)) THEN Ord(Head(a)) < Ord(Head(b))
    ELSE StrLess(Tail(a), Tail(b))

RECURSIVE Insert(_, _)
Insert(x, sortedSeq) ==
    IF sortedSeq = <<>> THEN <<x>>
    ELSE IF StrLess(x, Head(sortedSeq)) THEN <<x>> \o sortedSeq
    ELSE <<Head(sortedSeq)>> \o Insert(x, Tail(sortedSeq))

\* sorted(items), left out: the items as listed
Sorted_unsorted(items) ==
    items

\* sorted(items)
RECURSIVE Sorted(_)
Sorted(items) ==
    IF items = <<>> THEN <<>> ELSE Insert(Head(items), Sorted(Tail(items)))

(***************************************************************************)
(* Tree Builder: _build_tree                                               *)
(***************************************************************************)
\* lines 40-42
NodeName(path) ==
    IF Basename(RStripSep(path)) # EmptyStr
    THEN Basename(RStripSep(path)) ELSE Basename(path)

RECURSIVE BuildChildren(_, _, _, _)
RECURSIVE build_tree(_, _, _)

\* lines 50-52: one child per sorted entry
BuildChildren(f, listing, path, items) ==
    IF items = <<>> THEN <<>>
    ELSE <<build_tree(f, listing, Join(path, Head(items)))>>
             \o BuildChildren(f, listing, path, Tail(items))

\* lines 39-53
build_tree(f, listing, path) ==
    [ name     |-> NodeName(path),
      path     |-> path,
      type     |-> IF IsDir(f, path) THEN "directory" ELSE "file",
      children |-> IF IsDir(f, path)
                   THEN BuildChildren(f, listing, path, Sorted(ListDir(f, path, listing)))
                   ELSE <<>> ]

(***************************************************************************)
(* Filesystem snapshots                                                    *)
(***************************************************************************)
MaxDepth == 2       \* levels of entries below the root directory
MaxEntries == 2     \* entries below the root directory beyond which none is added

RootName == <<"R">>
NameBMCR == <<"B", ".", "M", "C", "R">>
NameSub  == <<"S", "u", "b">>
Nameamcr == <<"a", ".", "m", "c", "r">>

NamePool ==
    {NameBMCR, NameSub, Nameamcr}

\* orders in which the OS may list a directory
Listings ==
    { <<NameBMCR, NameSub, Nameamcr>>,
      <<Nameamcr, NameSub, NameBMCR>>,
      <<NameSub, Nameamcr, NameBMCR>> }

DescFooBar ==
    << CommentMarker \o SP \o macro_start_identifier \o SP \o Goo,
       macro_start_identifier \o SP \o Foo,
       category_identifier \o SP \o Quoted(Bar) >>

DescGZ ==
    << category_identifier \o Quoted(Baz),
       macro_start_identifier \o SP \o Goo >>

DescNoCategory ==
    << macro_start_identifier \o SP \o Foo >>

DescNoName ==
    << macro_start_identifier >>

DescPool ==
    {DescFooBar, DescGZ, DescNoCategory, DescNoName}

LowerChar(c) ==
    CASE c = "B" -> "b" [] c = "C" -> "c" [] c = "M" -> "m"
      [] c = "R" -> "r" [] c = "S" -> "s" [] OTHER -> c

\* str.lower()
Lower(s) ==
    [i \in 1..Len(s) |-> LowerChar(s[i])]

McrExt == <<".", "m", "c", "r">>

\* what a file of that name may hold: descriptors under .mcr names
ContentsFor(n) ==
    IF EndsWith(Lower(n), McrExt) THEN DescPool ELSE {DescFooBar}

EmptyFs ==
    [q \in {} |-> [kind |-> "dir", lines |-> <<>>]]

DirEntry ==
    [kind |-> "dir", lines |-> <<>>]

FileEntry(ls) ==
    [kind |-> "file", lines |-> ls]

\* the disks a run starts from: nothing, an empty root directory, and
\*   R/B.MCR  R/Sub/  R/Sub/Sub/  R/Sub/a.mcr  R/a.mcr
Snapshots ==
    { EmptyFs,
      (<<RootName>> :> DirEntry),
      (<<RootName>> :> DirEntry)
          @@ (<<RootName, NameBMCR>> :> FileEntry(DescFooBar))
          @@ (<<RootName, NameSub>> :> DirEntry)
          @@ (<<RootName, NameSub, NameSub>> :> DirEntry)
          @@ (<<RootName, NameSub, Nameamcr>> :> FileEntry(DescGZ))
          @@ (<<RootName, Nameamcr>> :> FileEntry(DescGZ)) }

\* the paths at which an entry can be made: the root, or a name in a directory
Creatable(f) ==
    IF <<RootName>> \notin DOMAIN f THEN {<<RootName>>}
    ELSE {Append(d, n) : d \in {q \in DOMAIN f : f[q].kind = "dir" /\ Len(q) <= MaxDepth},
                          n \in NamePool} \ DOMAIN f

MaxFsChanges == 1   \* changes of the disk after the scan

\* what a change of the disk leaves alone
DiskChanged ==
    /\ constructed => fsChanges < MaxFsChanges
    /\ fsChanges' = IF constructed THEN fsChanges + 1 ELSE fsChanges
    /\ built' = <<>>
    /\ last' = NoOp
    /\ UNCHANGED <<readerVars, constructed, fieldVars, registry, prints, flag0, mainBuilt>>

\* the disk changes: a directory is made
FsMkDir ==
    /\ Cardinality(DOMAIN fs) <= MaxEntries
    /\ \E q \in Creatable(fs) :
           fs' = fs @@ (q :> [kind |-> "dir", lines |-> <<>>])
    /\ DiskChanged

\* the disk changes: a file is written
FsWrite ==
    /\ Cardinality(DOMAIN fs) <= MaxEntries
    /\ \E q \in Creatable(fs) : \E ls \in ContentsFor(Last(q)) :
           fs' = fs @@ (q :> [kind |-> "file", lines |-> ls])
    /\ DiskChanged

\* the disk changes: a file or an empty directory is removed
FsRemove ==
    /\ \E q \in DOMAIN fs :
           /\ \A r \in DOMAIN fs : ~(Len(r) > Len(q) /\ SubSeq(r, 1, Len(q)) = q)
           /\ fs' = [r \in DOMAIN fs \ {q} |-> fs[r]]
    /\ DiskChanged

\* the forms in which a path is handed to _build_tree
PathForms ==
    { <<RootName>>,                      \* R
      <<RootName, EmptyStr>>,            \* R/
      <<Dot, RootName, Dot>>,            \* ./R/.
      <<RootName, NameSub>>,             \* R/Sub
      <<RootName, Nameamcr>> }           \* R/a.mcr

InitTree ==
    /\ fs \in Snapshots
    /\ built = <<>>
    /\ input = [isfile |-> FALSE, lines |-> <<>>]
    /\ result = Pending
    /\ Unconstructed

\* _build_tree(path), at most twice between two changes of the disk, the
\* second time on the same path
BuildTree ==
    /\ Len(built) < 2
    /\ \E path \in PathForms : \E listing \in Listings :
           /\ built # <<>> => path = built[1].arg
           /\ built' = Append(built, [arg |-> path, listing |-> listing,
                                      node |-> build_tree(fs, listing, path)])
    /\ UNCHANGED <<fs, readerVars, fsChanges, genVars>>

NextTree ==
    \/ FsMkDir
    \/ FsWrite
    \/ FsRemove
    \/ BuildTree

SpecTree ==
    InitTree /\ [][NextTree]_vars

(***************************************************************************)
(* Tree Printer: _print_directory_tree                                     *)
(* The box-drawing characters are written by name.                         *)
(***************************************************************************)
ConnectorLast == <<"<up-right>", "<horizontal>", "<horizontal>", " ">>
ConnectorMid  == <<"<vertical-right>", "<horizontal>", "<horizontal>", " ">>
IndentLast    == <<" ", " ", " ", " ">>
IndentMid     == <<"<vertical>", " ", " ", " ">>

RECURSIVE print_directory_tree(_, _, _)
RECURSIVE PrintChildren(_, _, _)

\* lines 62-64: the children, from the i-th on
PrintChildren(children, i, child_prefix) ==
    IF i > Len(children) THEN <<>>
    ELSE print_directory_tree(children[i], child_prefix, i = Len(children))
             \o PrintChildren(children, i + 1, child_prefix)

\* lines 57-64 with is_root = False: the lines printed for node
print_directory_tree(node, prefix, is_last) ==
    <<prefix \o (IF is_last THEN ConnectorLast ELSE ConnectorMid) \o node.name>>
        \o PrintChildren(node.children, 1,
                         prefix \o (IF is_last THEN IndentLast ELSE IndentMid))

(***************************************************************************)
(* Menu Synthesizer: _create_menu_from_tree                                *)
(* A host call is [op, on, label, tag, arg]; the menu object a call        *)
(* creates is known by the call's position in the sequence of calls, the   *)
(* host object the operation starts from is 0.                             *)
(***************************************************************************)
ActionTag == 647394

\* the separator character of line 110, written by name
Backtick == <<"<backtick>">>

HostCall(op, on, label, tag, arg) ==
    [op |-> op, on |-> on, label |-> label, tag |-> tag, arg |-> arg]

\* what read_macro_file(path) finds on the disk
ReadAt(f, path) ==
    read_macro_file([isfile |-> IsFile(f, path),
                     lines  |-> IF IsFile(f, path) THEN f[NormPath(path)].lines
                                ELSE <<>>])

\* line 107: child["path"].lower().endswith(".mcr")
HasMcrExt(path) ==
    EndsWith(Lower(Last(path)), McrExt)

RECURSIVE ActionsPass(_, _, _, _)
RECURSIVE SubmenusPass(_, _, _, _, _)
RECURSIVE create_menu_from_tree(_, _, _, _, _)

\* lines 106-110: the first loop; st is [calls, raised, isfile]
ActionsPass(f, current_menu, children, st) ==
    IF children = <<>> \/ st.raised THEN st
    ELSE LET child == Head(children)
         IN  IF child.type = "file" /\ HasMcrExt(child.path)
             THEN LET r   == ReadAt(f, child.path)
                      st1 == [st EXCEPT !.isfile = @ + 1]
                  IN  IF r.status = "raised"
                      THEN [st1 EXCEPT !.raised = TRUE]
                      ELSE IF r.name # EmptyStr /\ r.category # EmptyStr
                           THEN ActionsPass(f, current_menu, Tail(children),
                                    [st1 EXCEPT !.calls = Append(@,
                                        HostCall("createAction", current_menu,
                                                 r.name \o Backtick \o r.category,
                                                 ActionTag, ""))])
                           ELSE ActionsPass(f, current_menu, Tail(children), st1)
             ELSE ActionsPass(f, current_menu, Tail(children), st)

\* lines 111-113: the second loop
SubmenusPass(f, root, current_menu, children, st) ==
    IF children = <<>> \/ st.raised THEN st
    ELSE IF Head(children).type = "directory"
         THEN SubmenusPass(f, root, current_menu, Tail(children),
                  create_menu_from_tree(f, root, current_menu, Head(children), st))
         ELSE SubmenusPass(f, root, current_menu, Tail(children), st)

\* the two loops the other way round
TwoPasses_submenusFirst(f, root, current_menu, children, st) ==
    ActionsPass(f, current_menu, children,
                SubmenusPass(f, root, current_menu, children, st))

\* lines 106-113: the actions of the menu, then its submenus
TwoPasses(f, root, current_menu, children, st) ==
    SubmenusPass(f, root, current_menu, children,
                 ActionsPass(f, current_menu, children, st))

\* lines 98-113
create_menu_from_tree(f, root, parent_menu, node, st) ==
    IF st.raised THEN st
    ELSE IF NormPath(node.path) = NormPath(root)
    THEN TwoPasses(f, root, parent_menu, node.children, st)
    ELSE IF node.type = "directory"
         THEN LET st1 == [st EXCEPT !.calls = Append(@,
                              HostCall("createSubMenu", parent_menu, node.name, 0, ""))]
              IN  TwoPasses(f, root, Len(st1.calls), node.children, st1)
         ELSE st

(***************************************************************************)
(* The generator: __init__, define_main_menu, define_quad_menu,            *)
(* register_menus                                                          *)
(***************************************************************************)
MainMenuName == <<"T", "o", "o", "l", "s", " ", "M", "e", "n", "u">>
QuadMenuName == <<"T", "o", "o", "l", "s", " ", "Q", "u", "a", "d", " ", "M", "e", "n", "u">>

RECURSIVE NodeCount(_)
RECURSIVE NodeCountSeq(_)
NodeCountSeq(children) ==
    IF children = <<>> THEN 0
    ELSE NodeCount(Head(children)) + NodeCountSeq(Tail(children))

\* the nodes of a tree
NodeCount(node) ==
    1 + NodeCountSeq(node.children)

RECURSIVE DirCount(_)
RECURSIVE DirCountSeq(_)
DirCountSeq(children) ==
    IF children = <<>> THEN 0
    ELSE DirCount(Head(children)) + DirCountSeq(Tail(children))

\* the directory nodes of a tree
DirCount(node) ==
    (IF node.type = "directory" THEN 1 ELSE 0) + DirCountSeq(node.children)

\* lines 29-35: __init__; the scan tests every node twice for being a
\* directory (lines 46, 49) and lists every directory once (line 50)
construct(root, keys, position, flag) ==
    /\ ~constructed
    /\ constructed' = TRUE
    /\ root_directory_path' = root
    /\ quad_menu_modifier_keys' = keys
    /\ quad_menu_position' = position
    /\ print_tree' = flag
    /\ \E listing \in Listings :
           directory_tree' = build_tree(fs, listing, root)
    /\ last' = [NoOp EXCEPT !.op = "__init__",
                            !.isdir = 2 * NodeCount(directory_tree'),
                            !.listdir = DirCount(directory_tree')]
    /\ flag0' = flag
    /\ fsChanges' = 0
    /\ UNCHANGED <<readerVars, treeVars, registry, prints, mainBuilt>>

\* lines 123-125: the lines of the tree dump
RECURSIVE DumpFrom(_, _)
DumpFrom(children, i) ==
    IF i > Len(children) THEN <<>>
    ELSE print_directory_tree(children[i], EmptyStr, i = Len(children))
             \o DumpFrom(children, i + 1)

SynthStart(calls) ==
    [calls |-> calls, raised |-> FALSE, isfile |-> 0]

\* lines 117-129, rebuilding the tree from the disk instead of using the cache
DefineMainMenu_rescan ==
    /\ constructed
    /\ \E listing \in Listings :
           directory_tree' = build_tree(fs, listing, root_directory_path)
    /\ LET st == create_menu_from_tree(fs, root_directory_path, 1, directory_tree',
                     SynthStart(<<HostCall("createSubMenu", 0, MainMenuName, 0, "")>>))
       IN  last' = [NoOp EXCEPT !.op = "define_main_menu",
                                !.raised = st.raised,
                                !.calls = st.calls,
                                !.stdout = IF print_tree
                                           THEN DumpFrom(directory_tree'.children, 1)
                                                    \o <<EmptyStr>>
                                           ELSE <<>>,
                                !.isdir = 2 * NodeCount(directory_tree'),
                                !.listdir = DirCount(directory_tree'),
                                !.isfile = st.isfile]
    /\ print_tree' = FALSE
    /\ prints' = IF print_tree THEN prints + 1 ELSE prints
    /\ mainBuilt' = TRUE
    /\ UNCHANGED <<readerVars, treeVars, fsChanges, constructed, root_directory_path,
                   quad_menu_modifier_keys, quad_menu_position, registry, flag0>>

\* lines 117-129, without line 127
DefineMainMenu_keepsFlag ==
    /\ constructed
    /\ prints < 3
    /\ LET st == create_menu_from_tree(fs, root_directory_path, 1, directory_tree,
                     SynthStart(<<HostCall("createSubMenu", 0, MainMenuName, 0, "")>>))
       IN  last' = [NoOp EXCEPT !.op = "define_main_menu",
                                !.raised = st.raised,
                                !.calls = st.calls,
                                !.stdout = IF print_tree
                                           THEN DumpFrom(directory_tree.children, 1)
                                                    \o <<EmptyStr>>
                                           ELSE <<>>,
                                !.isfile = st.isfile]
    /\ prints' = IF print_tree THEN prints + 1 ELSE prints
    /\ mainBuilt' = TRUE
    /\ UNCHANGED <<readerVars, treeVars, fsChanges, constructed, fieldVars,
                   registry, flag0>>

\* lines 117-129: define_main_menu, the callback of the menu-rebuild event
DefineMainMenu ==
    /\ constructed
    /\ LET st == create_menu_from_tree(fs, root_directory_path, 1, directory_tree,
                     SynthStart(<<HostCall("createSubMenu", 0, MainMenuName, 0, "")>>))
       IN  last' = [NoOp EXCEPT !.op = "define_main_menu",
                                !.raised = st.raised,
                                !.calls = st.calls,
                                !.stdout = IF print_tree
                                           THEN DumpFrom(directory_tree.children, 1)
                                                    \o <<EmptyStr>>
                                           ELSE <<>>,
                                !.isfile = st.isfile]
    /\ print_tree' = FALSE
    /\ prints' = IF print_tree THEN prints + 1 ELSE prints
    /\ mainBuilt' = TRUE
    /\ UNCHANGED <<readerVars, treeVars, fsChanges, constructed, root_directory_path,
                   quad_menu_modifier_keys, quad_menu_position, directory_tree,
                   registry, flag0>>

\* lines 139-148
modifier_keys_map ==
    [k \in {"NONE", "ALT", "CTRL", "CTRL+ALT", "CTRL+SHIFT", "SHIFT+ALT+CTRL",
            "SHIFT", "SHIFT+ALT"} |->
        CASE k = "NONE" -> "nonePressed"
          [] k = "ALT" -> "altPressed"
          [] k = "CTRL" -> "controlPressed"
          [] k = "CTRL+ALT" -> "controlAndAltPressed"
          [] k = "CTRL+SHIFT" -> "shiftAndControlPressed"
          [] k = "SHIFT+ALT+CTRL" -> "shiftAndAltAndControlPressed"
          [] k = "SHIFT" -> "shiftPressed"
          [] k = "SHIFT+ALT" -> "shiftAndAltPressed"]

\* lines 156-161
quad_menu_positions ==
    [k \in {"TOP_LEFT", "TOP_RIGHT", "BOTTOM_RIGHT", "BOTTOM_LEFT"} |->
        CASE k = "TOP_LEFT" -> "TopLeft"
          [] k = "TOP_RIGHT" -> "TopRight"
          [] k = "BOTTOM_RIGHT" -> "BottomRight"
          [] k = "BOTTOM_LEFT" -> "BottomLeft"]

\* lines 137-154: the quad menu is made and, for a known key combination, gated
QuadMenuCalls(keys) ==
    <<HostCall("CreateQuadMenu", 0, QuadMenuName, 0, "")>>
        \o (IF keys \in DOMAIN modifier_keys_map
            THEN <<HostCall("SetRightClickModifiers", 1, EmptyStr, 0,
                            modifier_keys_map[keys])>>
            ELSE <<>>)

\* lines 133-170: define_quad_menu, the callback of the quad-menu-rebuild event
DefineQuadMenu ==
    /\ constructed
    /\ LET position == IF quad_menu_position \in DOMAIN quad_menu_positions
                       THEN quad_menu_positions[quad_menu_position]
                       ELSE quad_menu_positions["TOP_RIGHT"]
           calls0   == Append(QuadMenuCalls(quad_menu_modifier_keys),
                              HostCall("CreateMenu", 1, EmptyStr, 0, position))
           st       == create_menu_from_tree(fs, root_directory_path, Len(calls0),
                                             directory_tree, SynthStart(calls0))
       IN  last' = [NoOp EXCEPT
                      !.op = "define_quad_menu",
                      !.raised = st.raised,
                      !.calls = st.calls,
                      !.warnings =
                          (IF quad_menu_modifier_keys \in DOMAIN modifier_keys_map
                           THEN <<>> ELSE <<"Invalid modifier key combination">>)
                          \o (IF quad_menu_position \in DOMAIN quad_menu_positions
                              THEN <<>> ELSE <<"Invalid quad menu position">>),
                      !.isfile = st.isfile]
    /\ UNCHANGED <<readerVars, treeVars, fsChanges, constructed, fieldVars,
                   registry, prints, flag0, mainBuilt>>

\* callbacks.removeScripts left out
RemoveScripts_none(reg, id) ==
    reg

\* callbacks.removeScripts(id=id)
RemoveScripts(reg, id) ==
    SelectSeq(reg, LAMBDA e : e.id # id)

\* callbacks.addScript(event, callback, id=id)
AddScript(reg, event, inst, method, id) ==
    Append(reg, [event |-> event, inst |-> inst, method |-> method, id |-> id])

\* lines 174-189: register_menus of generator inst; the two LoadConfiguration
\* calls make the host raise the rebuild events that DefineMainMenu and
\* DefineQuadMenu answer
register_menus(inst, main_menu_callback_id, quad_menu_callback_id) ==
    /\ inst = 1 => constructed
    /\ LET r1 == RemoveScripts(registry, main_menu_callback_id)
           r2 == AddScript(r1, "cuiRegisterMenus", inst, "define_main_menu",
                           main_menu_callback_id)
           r3 == RemoveScripts(r2, quad_menu_callback_id)
       IN  registry' = AddScript(r3, "cuiRegisterQuadMenus", inst, "define_quad_menu",
                                 quad_menu_callback_id)
    /\ last' = [NoOp EXCEPT !.op = "register_menus",
                            !.inst = inst,
                            !.main = main_menu_callback_id,
                            !.quad = quad_menu_callback_id]
    /\ UNCHANGED <<readerVars, treeVars, fsChanges, constructed, fieldVars,
                   prints, flag0, mainBuilt>>

(***************************************************************************)
(* Spec: one generator over a disk that changes, default configuration     *)
(***************************************************************************)
\* the forms in which the root directory is configured
RootForms ==
    { <<RootName>>,                      \* R
      <<Dot, RootName, EmptyStr>> }      \* ./R/

Init ==
    /\ fs \in Snapshots
    /\ built = <<>>
    /\ input = [isfile |-> FALSE, lines |-> <<>>]
    /\ result = Pending
    /\ Unconstructed

\* MenuGenerator(root_directory_path)
Construct ==
    \E root \in RootForms : construct(root, "CTRL+SHIFT", "TOP_RIGHT", FALSE)

\* register_menus()
RegisterDefault ==
    register_menus(1, "menu_callback", "quad_menu_callback")

Next ==
    \/ FsMkDir
    \/ FsWrite
    \/ FsRemove
    \/ Construct
    \/ RegisterDefault
    \/ DefineMainMenu
    \/ DefineQuadMenu

Spec ==
    Init /\ [][Next]_vars

(***************************************************************************)
(* SpecHost: generators of any configuration in one host                   *)
(***************************************************************************)
ModifierKeys ==
    {"CTRL+SHIFT", "ALT", "FOO"}

Positions ==
    {"TOP_RIGHT", "BOTTOM_LEFT", "MIDDLE"}

\* generator 1 is the one whose fields are held; 2 is another one in the host
Instances ==
    {1, 2}

CallbackIds ==
    {"menu_callback", "quad_menu_callback", "custom_menu"}

InitHost ==
    /\ fs \in Snapshots
    /\ built = <<>>
    /\ input = [isfile |-> FALSE, lines |-> <<>>]
    /\ result = Pending
    /\ Unconstructed

\* MenuGenerator(root, quad_menu_modifier_keys=, quad_menu_position=, print_tree=)
ConstructConfigured ==
    \E keys \in ModifierKeys : \E position \in Positions : \E flag \in BOOLEAN :
        construct(<<RootName>>, keys, position, flag)

\* register_menus(main_menu_callback_id=, quad_menu_callback_id=) of a generator
RegisterMenus ==
    \E inst \in Instances : \E mid \in CallbackIds : \E qid \in CallbackIds :
        register_menus(inst, mid, qid)

NextHost ==
    \/ ConstructConfigured
    \/ RegisterMenus
    \/ DefineMainMenu
    \/ DefineQuadMenu

SpecHost ==
    InitHost /\ [][NextHost]_vars

(***************************************************************************)
(* Claims about the Descriptor Reader (SpecReader)                         *)
(***************************************************************************)
\* the file's lines that do not start, after white space, with "--"
NonCommentLines ==
    SelectSeq(input.lines, LAMBDA l : ~StartsWith(LStrip(l), CommentMarker))

HasStartMarker(l) ==
    Contains(l, macro_start_identifier)

HasCategoryMarker(l) ==
    Contains(l, category_identifier)

\* the text after the first double quote, up to the next one or the line's end
AfterFirstQuote(l) ==
    IF \E i \in 1..Len(l) : l[i] = Quote
    THEN LET i == CHOOSE k \in 1..Len(l) :
                      l[k] = Quote /\ \A j \in 1..(k - 1) : l[j] # Quote
             rest == SubSeq(l, i + 1, Len(l))
         IN  IF \E k \in 1..Len(rest) : rest[k] = Quote
             THEN SubSeq(rest, 1,
                         (CHOOSE k \in 1..Len(rest) :
                              rest[k] = Quote /\ \A j \in 1..(k - 1) : rest[j] # Quote) - 1)
             ELSE rest
    ELSE EmptyStr

\* the text between the first pair of double quotes; nothing without a pair
BetweenFirstPair(l) ==
    IF Cardinality({i \in 1..Len(l) : l[i] = Quote}) >= 2
    THEN AfterFirstQuote(l) ELSE EmptyStr

YieldsCategory(l) ==
    HasCategoryMarker(l) /\ AfterFirstQuote(l) # EmptyStr

\* index of the first element of ls satisfying P, 0 when there is none
FirstIdx(ls, P(_)) ==
    IF \E i \in 1..Len(ls) : P(ls[i])
    THEN CHOOSE i \in 1..Len(ls) : P(ls[i]) /\ \A j \in 1..(i - 1) : ~P(ls[j])
    ELSE 0

\* the tokens of a line: what lies between white space
TokenCount(l) ==
    Cardinality({i \in 1..Len(l) :
                    ~IsSpace(l[i]) /\ (i = 1 \/ IsSpace(l[i - 1]))})

SecondToken(l) ==
    LET starts == {i \in 1..Len(l) : ~IsSpace(l[i]) /\ (i = 1 \/ IsSpace(l[i - 1]))}
        first  == CHOOSE i \in starts : \A j \in starts : i <= j
        second == CHOOSE i \in starts \ {first} : \A j \in starts \ {first} : i <= j
        stop   == CHOOSE e \in second..Len(l) :
                      /\ \A k \in second..e : ~IsSpace(l[k])
                      /\ (e = Len(l) \/ IsSpace(l[e + 1]))
    IN  SubSeq(l, second, stop)

FirstStartLine ==
    FirstIdx(NonCommentLines, HasStartMarker)

FirstCategoryLine ==
    FirstIdx(NonCommentLines, HasCategoryMarker)

FirstYieldingCategoryLine ==
    FirstIdx(NonCommentLines, YieldsCategory)

ExpectedName ==
    IF FirstStartLine = 0 THEN EmptyStr
    ELSE SecondToken(NonCommentLines[FirstStartLine])

\* the scan stops with IndexError exactly on a first start-marker line of one token
StartLineHasNoName ==
    /\ input.isfile
    /\ FirstStartLine # 0
    /\ TokenCount(NonCommentLines[FirstStartLine]) < 2

FooBarFile ==
    /\ input.isfile
    /\ Len(NonCommentLines) = 2
    /\ {Strip(NonCommentLines[1]), Strip(NonCommentLines[2])}
           = { macro_start_identifier \o SP \o Foo,
               category_identifier \o SP \o Quoted(Bar) }

\* C4 as stated: whenever read_macro_file returns on a file, the name is the
\* second token of the first non-comment line with the start marker and the
\* category is the text between the first pair of double quotes on the first
\* non-comment line with the category marker; no later line supplies a field.
C4_FirstMatchWins ==
    (result.status = "returned" /\ input.isfile) =>
        /\ result.name = ExpectedName
        /\ result.category =
               IF FirstCategoryLine = 0 THEN EmptyStr
               ELSE BetweenFirstPair(NonCommentLines[FirstCategoryLine])

\* C4 (amended): the name is the second token of the first non-comment line with
\* the start marker (the call raises IndexError instead of returning exactly when
\* that line has a single token); the category is the text after the first double
\* quote, up to the next one or the end of the line, of the first non-comment
\* category-marker line on which that text is non-empty, so a category-marker
\* line without quoted text is skipped and a later one supplies the category;
\* a macroScript Foo line and a category: "Bar" line give (Foo, Bar).
C4_FirstNonEmptyMatchWins ==
    (result.status # "pending" /\ input.isfile) =>
        /\ (result.status = "raised") <=> StartLineHasNoName
        /\ result.status = "returned" =>
              /\ result.name = ExpectedName
              /\ result.category =
                     IF FirstYieldingCategoryLine = 0 THEN EmptyStr
                     ELSE AfterFirstQuote(NonCommentLines[FirstYieldingCategoryLine])
        /\ FooBarFile => result = Returned(Foo, Bar)

\* a returned category that comes from a later category-marker line, with
\* a second start-marker line that did not overwrite the name
C4_Witness ==
    /\ result.status = "returned"
    /\ result.name # EmptyStr
    /\ result.category # EmptyStr
    /\ FirstCategoryLine # 0
    /\ FirstYieldingCategoryLine > FirstCategoryLine
    /\ \E i \in (FirstStartLine + 1)..Len(NonCommentLines) :
           /\ HasStartMarker(NonCommentLines[i])
           /\ TokenCount(NonCommentLines[i]) >= 2
           /\ SecondToken(NonCommentLines[i]) # result.name

\* C5: read_macro_file always returns a pair and never raises; a field that is
\* absent (no line gives it, or the path is not a file) is the empty string.
C5_AlwaysReturnsPair ==
    result.status # "pending" =>
        /\ result.status = "returned"
        /\ ~input.isfile => (result.name = EmptyStr /\ result.category = EmptyStr)
        /\ (input.isfile /\ FirstStartLine = 0) => result.name = EmptyStr
        /\ (input.isfile /\ FirstCategoryLine = 0) => result.category = EmptyStr

(***************************************************************************)
(* Claims about the Tree Builder (SpecTree)                                *)
(***************************************************************************)
\* the entry names of the directory at path
Entries(f, path) ==
    {n \in NamePool : Append(NormPath(path), n) \in DOMAIN f}

\* node is what the claim says _build_tree(path) returns on filesystem f
RECURSIVE TreeMatches(_, _, _)
TreeMatches(f, node, path) ==
    /\ node.path = path
    /\ IF NormPath(path) \in DOMAIN f /\ f[NormPath(path)].kind = "dir"
       THEN /\ node.type = "directory"
            /\ Len(node.children) = Cardinality(Entries(f, path))
            /\ {Basename(node.children[i].path) : i \in 1..Len(node.children)}
                   = Entries(f, path)
            /\ \A i, j \in 1..Len(node.children) :
                   i < j => StrLess(Basename(node.children[i].path),
                                    Basename(node.children[j].path))
            /\ \A i \in 1..Len(node.children) :
                   TreeMatches(f, node.children[i],
                               Join(path, Basename(node.children[i].path)))
       ELSE /\ node.type = "file"
            /\ node.children = <<>>

RECURSIVE NoFileHasChildren(_)
NoFileHasChildren(node) ==
    /\ node.type = "file" => node.children = <<>>
    /\ \A i \in 1..Len(node.children) : NoFileHasChildren(node.children[i])

\* C6: _build_tree(path) returns a node with the given path; for a directory it
\* is of type directory with one child per entry, the children strictly ascending
\* by entry name and each the tree of the joined path; for anything else it is of
\* type file without children; a file node never has children and two builds on
\* an unchanged filesystem give the same tree, however the OS lists the entries.
C6_BuildTree ==
    /\ \A i \in 1..Len(built) :
           /\ TreeMatches(fs, built[i].node, built[i].arg)
           /\ NoFileHasChildren(built[i].node)
    /\ Len(built) = 2 => built[1].node = built[2].node

\* two builds of a directory with a nested directory, listed by the OS in two
\* orders, one of them not the sorted one
C6_Witness ==
    /\ Len(built) = 2
    /\ built[1].listing # built[2].listing
    /\ Len(built[2].node.children) >= 2
    /\ \E i \in 1..Len(built[2].node.children) :
           /\ built[2].node.children[i].type = "directory"
           /\ built[2].node.children[i].children # <<>>
    /\ \E k \in 1..2 :
           ListDir(fs, built[k].arg, built[k].listing)
               # [i \in 1..Len(built[k].node.children) |->
                      Basename(built[k].node.children[i].path)]

\* a path that does not exist builds a file node
C6_WitnessMissing ==
    /\ built # <<>>
    /\ NormPath(built[1].arg) \notin DOMAIN fs
    /\ built[1].node.type = "file"

(***************************************************************************)
(* Claims about the Menu Synthesizer (Spec)                                *)
(***************************************************************************)
Synthesized ==
    last.op \in {"define_main_menu", "define_quad_menu"}

\* the menu handed to _create_menu_from_tree by the last operation
Container ==
    IF last.op = "define_main_menu" THEN 1
    ELSE CHOOSE h \in 1..Len(last.calls) : last.calls[h].op = "CreateMenu"

\* the submenus the synthesis made
Submenus ==
    {h \in (Container + 1)..Len(last.calls) : last.calls[h].op = "createSubMenu"}

\* the labels from the container down to menu h
RECURSIVE MenuPath(_)
MenuPath(h) ==
    IF h = Container THEN <<>>
    ELSE Append(MenuPath(last.calls[h].on), last.calls[h].label)

\* the names from the root down to each directory node below node
RECURSIVE DirNamePaths(_, _)
DirNamePaths(node, prefix) ==
    UNION { IF node.children[i].type = "directory"
            THEN {Append(prefix, node.children[i].name)}
                     \cup DirNamePaths(node.children[i],
                                       Append(prefix, node.children[i].name))
            ELSE {} : i \in 1..Len(node.children) }

\* the node reached from node by a path of names
RECURSIVE NodeAt(_, _)
NodeAt(node, names) ==
    IF names = <<>> THEN node
    ELSE NodeAt(node.children[CHOOSE i \in 1..Len(node.children) :
                                  node.children[i].name = Head(names)],
                Tail(names))

\* a name ending in .mcr, whatever the case of the letters
IsMcrName(n) ==
    /\ Len(n) >= 4
    /\ n[Len(n) - 3] = "."
    /\ n[Len(n) - 2] \in {"m", "M"}
    /\ n[Len(n) - 1] \in {"c", "C"}
    /\ n[Len(n)] \in {"r", "R"}

\* the child is a .mcr file whose descriptor gives a name and a category
GivesAction(child) ==
    /\ child.type = "file"
    /\ IsMcrName(Last(child.path))
    /\ ReadAt(fs, child.path).status = "returned"
    /\ ReadAt(fs, child.path).name # EmptyStr
    /\ ReadAt(fs, child.path).category # EmptyStr

\* the labels of the actions the claim expects in the menu of node
ExpectedLabels(node) ==
    LET giving == SelectSeq(node.children, GivesAction)
    IN  [i \in 1..Len(giving) |->
            ReadAt(fs, giving[i].path).name \o Backtick
                \o ReadAt(fs, giving[i].path).category]

\* the actions created in menu h, in creation order
ActionsOn(h) ==
    SelectSeq(last.calls, LAMBDA c : c.op = "createAction" /\ c.on = h)

\* C1: in every synthesis pass, in every menu, every createAction call comes
\* before every createSubMenu call, whatever the order of files and directories
\* among the node's children.
C1_ActionsBeforeSubmenus ==
    Synthesized =>
        \A i, j \in 1..Len(last.calls) :
            ( /\ last.calls[i].op = "createSubMenu"
              /\ last.calls[j].op = "createAction"
              /\ last.calls[i].on = last.calls[j].on ) => j < i

\* a menu with a submenu and an action, made from a node in which a directory
\* comes before the .mcr file of the action
C1_Witness ==
    /\ last.op = "define_main_menu"
    /\ ~last.raised
    /\ \E i, j \in 1..Len(directory_tree.children) :
           /\ i < j
           /\ directory_tree.children[i].type = "directory"
           /\ GivesAction(directory_tree.children[j])
           /\ \E a, b \in 1..Len(last.calls) :
                  /\ last.calls[a] = HostCall("createAction", 1,
                                         ExpectedLabels(directory_tree)
                                             [Len(ExpectedLabels(directory_tree))],
                                         ActionTag, "")
                  /\ last.calls[b] = HostCall("createSubMenu", 1,
                                         directory_tree.children[i].name, 0, "")

\* C2: one synthesis creates exactly one submenu per directory node other than the
\* root and none for the root: each directory's submenu lies in the menu of its
\* parent directory (the root's children in the container) under the node's
\* name, empty directories included.
C2_OneSubmenuPerDirectory ==
    Synthesized =>
        /\ Cardinality(Submenus) = Cardinality(DirNamePaths(directory_tree, <<>>))
        /\ {MenuPath(h) : h \in Submenus} = DirNamePaths(directory_tree, <<>>)

\* C3: in the menu of every directory visited, the actions are, in stored child
\* order, one per child that is a .mcr file (any case) whose descriptor gives a
\* non-empty name and category, labelled name + backtick + category and tagged
\* 647394; no other child gets an action.
C3_ActionsPerChild ==
    Synthesized =>
        \A h \in Submenus \cup {Container} :
            /\ MenuPath(h) \in DirNamePaths(directory_tree, <<>>) \cup {<<>>}
            /\ ActionsOn(h) =
                   LET labels == ExpectedLabels(NodeAt(directory_tree, MenuPath(h)))
                   IN  [i \in 1..Len(labels) |->
                           HostCall("createAction", h, labels[i], 647394, "")]

\* C9: the disk is scanned at construction only: register_menus, define_main_menu
\* and define_quad_menu list no directory and test no path for being a directory,
\* they leave the cached tree as it is, and the submenus of a rebuild are those of
\* the cached tree even after the disk has changed.
C9_ScannedOnce ==
    /\ [](last.op \in {"register_menus", "define_main_menu", "define_quad_menu"}
             => (last.isdir = 0 /\ last.listdir = 0))
    /\ [](Synthesized
             => {MenuPath(h) : h \in Submenus} \subseteq DirNamePaths(directory_tree, <<>>))
    /\ []((Synthesized /\ ~last.raised)
             => {MenuPath(h) : h \in Submenus} = DirNamePaths(directory_tree, <<>>))
    /\ [][constructed => directory_tree' = directory_tree]_vars

\* a rebuild after the disk changed: a directory of the cache that is gone from
\* the disk still gets its submenu
C9_Witness ==
    /\ last.op = "define_main_menu"
    /\ ~last.raised
    /\ fsChanges > 0
    /\ \E i \in 1..Len(directory_tree.children) :
           /\ directory_tree.children[i].type = "directory"
           /\ ~IsDir(fs, directory_tree.children[i].path)
           /\ \E h \in Submenus :
                  last.calls[h] = HostCall("createSubMenu", 1,
                                           directory_tree.children[i].name, 0, "")

(***************************************************************************)
(* Claims about the quad menu, the registration and the tree dump          *)
(* (SpecHost)                                                              *)
(***************************************************************************)
\* C7: with a modifier-key value outside the enumerated set define_quad_menu
\* warns, does not fail, creates and populates the quad menu, and sets on it the
\* gating of the default configuration.
C7_DefaultGatingApplied ==
    (last.op = "define_quad_menu"
         /\ quad_menu_modifier_keys \notin DOMAIN modifier_keys_map) =>
        /\ "Invalid modifier key combination" \in
               {last.warnings[i] : i \in 1..Len(last.warnings)}
        /\ ~last.raised
        /\ last.calls[1].op = "CreateQuadMenu"
        /\ \E h \in 1..Len(last.calls) : last.calls[h].op = "CreateMenu"
        /\ \E h \in 1..Len(last.calls) :
               last.calls[h] = HostCall("SetRightClickModifiers", 1, EmptyStr, 0,
                                        modifier_keys_map["CTRL+SHIFT"])

MainRegistered ==
    \E i \in 1..Len(registry) :
        registry[i] = [event |-> "cuiRegisterMenus", inst |-> last.inst,
                       method |-> "define_main_menu", id |-> last.main]

QuadRegistered ==
    \E i \in 1..Len(registry) :
        registry[i] = [event |-> "cuiRegisterQuadMenus", inst |-> last.inst,
                       method |-> "define_quad_menu", id |-> last.quad]

OneCallbackPerId ==
    \A i, j \in 1..Len(registry) : registry[i].id = registry[j].id => i = j

\* C8 as stated: for any pair of identifiers, after any register_menus calls,
\* the main-menu build is registered under the main identifier and the quad-menu
\* build under the quad identifier, and no identifier holds two callbacks.
C8_BothRegistered ==
    /\ OneCallbackPerId
    /\ last.op = "register_menus" => (MainRegistered /\ QuadRegistered)

\* C8 (amended): for any pair of distinct identifiers; when the two identifiers
\* are the same, registering the quad-menu build removes the main-menu build
\* again and only the quad-menu build is registered.
C8_BothRegisteredIfDistinct ==
    /\ OneCallbackPerId
    /\ last.op = "register_menus" =>
           /\ QuadRegistered
           /\ MainRegistered <=> last.main # last.quad

\* a second generator registered under identifiers of its own next to what the
\* first one left
C8_Witness ==
    /\ last.op = "register_menus"
    /\ last.inst = 2
    /\ last.main # last.quad
    /\ MainRegistered
    /\ QuadRegistered
    /\ Len(registry) = 3
    /\ \E i \in 1..Len(registry) : registry[i].inst = 1

\* the names of the nodes below node, in the order of a depth-first walk
RECURSIVE NamesBelow(_)
RECURSIVE NamesBelowFrom(_, _)
NamesBelowFrom(children, i) ==
    IF i > Len(children) THEN <<>>
    ELSE <<children[i].name>> \o NamesBelow(children[i])
             \o NamesBelowFrom(children, i + 1)

NamesBelow(node) ==
    NamesBelowFrom(node.children, 1)

\* C10: the tree is dumped at most once per generator: with the flag set at
\* construction the first define_main_menu dumps it, one line per node below the
\* root and none for the root, and clears the flag; no later define_main_menu and
\* no define_quad_menu dumps it; with the flag not set it is never dumped.
C10_DumpedAtMostOnce ==
    /\ prints <= 1
    /\ ~flag0 => prints = 0
    /\ (flag0 /\ mainBuilt) => (prints = 1 /\ ~print_tree)
    /\ (flag0 /\ ~mainBuilt) => prints = 0
    /\ last.op # "define_main_menu" => last.stdout = <<>>
    /\ last.stdout # <<>> =>
           LET names == NamesBelow(directory_tree)
           IN  /\ Len(last.stdout) = Len(names) + 1
               /\ last.stdout[Len(last.stdout)] = EmptyStr
               /\ \A i \in 1..Len(names) :
                      /\ EndsWith(last.stdout[i], names[i])
                      /\ Len(last.stdout[i]) > Len(names[i])

\* a define_main_menu that dumped the tree of a nested directory
C10_WitnessDump ==
    /\ last.op = "define_main_menu"
    /\ Len(last.stdout) > 3
    /\ prints = 1

\* a later define_main_menu of a generator that has dumped its tree
C10_Witness ==
    /\ flag0
    /\ prints = 1
    /\ last.op = "define_main_menu"
    /\ last.stdout = <<>>
    /\ Len(NamesBelow(directory_tree)) > 2

====
